---------------------------- MODULE Spec2Model ----------------------------
(***************************************************************************)
(* Model of collector/tasks.go: the task collector of the elasticsearch    *)
(* exporter.  One collection cycle is one call of TaskCollector.Update,    *)
(* which calls fetchAndDecodeAndAggregateTaskStats (build the request,     *)
(* GET, check the status, read the body, decode, aggregate; the deferred   *)
(* function closes the body) and then sends one sample per action.         *)
(*                                                                         *)
(* Strings that are escaped or parsed (the action filter, the query) are   *)
(* sequences of one-character strings; action names and path segments are  *)
(* plain strings.                                                          *)
(***************************************************************************)
EXTENDS Integers, Sequences, FiniteSets, TLC

\* Longest task list of a response body.
MaxTasks == 3

-----------------------------------------------------------------------------
(* Strings, net/url query escaping *)

DefaultFilter == <<"i", "n", "d", "i", "c", "e", "s", ":", "*">>

\* Values the flag tasks.actions is given on the command line.
FlagValues ==
    { <<"a", "&", "b", "=", "c">>,
      <<"5", "%", "+", " ">> }

GroupByKey == <<"g", "r", "o", "u", "p", "_", "b", "y">>
ActionsKey == <<"a", "c", "t", "i", "o", "n", "s">>
NoneValue == <<"n", "o", "n", "e">>

\* Characters url.QueryEscape leaves alone.
Unreserved ==
    { "a", "b", "c", "d", "e", "g", "i", "n", "o", "p", "r", "s", "t", "u", "y",
      "0", "2", "3", "5", "6", "A", "B", "D", "_", "-", ".", "~" }

\* The two hex digits of a character's byte.
HexOf(c) ==
    CASE c = ":" -> <<"3", "A">>
      [] c = "*" -> <<"2", "A">>
      [] c = "&" -> <<"2", "6">>
      [] c = "=" -> <<"3", "D">>
      [] c = "%" -> <<"2", "5">>
      [] c = "+" -> <<"2", "B">>
      [] OTHER -> <<"0", "0">>

EscapeChar(c) ==
    IF c \in Unreserved THEN <<c>>
    ELSE IF c = " " THEN <<"+">>
    ELSE <<"%">> \o HexOf(c)

RECURSIVE QueryEscapeRaw(_)
QueryEscapeRaw(s) ==
    IF s = <<>> THEN <<>> ELSE EscapeChar(Head(s)) \o QueryEscapeRaw(Tail(s))

\* QueryEscape with the escaping left out.
QueryEscapeNone(s) == s

QueryEscape(s) == QueryEscapeRaw(s)

\* url.Values.Encode: keys in sorted order, key=value pairs joined by "&".
KeyOrder == <<ActionsKey, GroupByKey>>

RECURSIVE EncodeFrom(_, _)
EncodeFrom(q, i) ==
    IF i > Len(KeyOrder) THEN <<>>
    ELSE IF KeyOrder[i] \notin DOMAIN q THEN EncodeFrom(q, i + 1)
    ELSE LET pair == QueryEscape(KeyOrder[i]) \o <<"=">> \o QueryEscape(q[KeyOrder[i]])
             rest == EncodeFrom(q, i + 1)
         IN  IF rest = <<>> THEN pair ELSE pair \o <<"&">> \o rest

Encode(q) == EncodeFrom(q, 1)

\* url.Values.Set
Set(q, key, value) ==
    [k \in DOMAIN q \cup {key} |-> IF k = key THEN value ELSE q[k]]

-----------------------------------------------------------------------------
(* URLs *)

\* Base URLs the collector is constructed with.  A path is the sequence of
\* its segments: "" is <<>>, "/es" is <<"es">>, "/es/" is <<"es", "">>.
BaseURLs ==
    { [scheme |-> "http", host |-> "localhost:9200", path |-> <<>>, rawQuery |-> <<>>],
      [scheme |-> "https", host |-> "es:443", path |-> <<"es", "">>,
       rawQuery |-> <<"p", "=", "1">>],
      [scheme |-> "http", host |-> "es:9200", path |-> <<"es">>, rawQuery |-> <<>>] }

NoURL == [scheme |-> "", host |-> "", path |-> <<>>, rawQuery |-> <<>>]

\* url.URL.ResolveReference for the relative reference {Path: "_tasks"}:
\* the base path up to its last "/" followed by the reference path; the
\* query is the reference's (empty).
DirOf(path) == IF path = <<>> THEN <<>> ELSE SubSeq(path, 1, Len(path) - 1)

ResolveReference(base, refPath) ==
    [scheme |-> base.scheme, host |-> base.host,
     path |-> DirOf(base.path) \o <<refPath>>, rawQuery |-> <<>>]

\* Lines 84-88: the URL of the request.
RequestURL(base, filter) ==
    LET u == ResolveReference(base, "_tasks")
        q0 == << >>
        q1 == Set(q0, GroupByKey, NoneValue)
        q2 == Set(q1, ActionsKey, filter)
    IN  [u EXCEPT !.rawQuery = Encode(q2)]

-----------------------------------------------------------------------------
(* Errors *)

NoErr == [kind |-> "nil"]

IsNil(e) == e.kind = "nil"

\* Line 92: the error of a failed GET names scheme, host and path.
GetError(u) == [kind |-> "get", scheme |-> u.scheme, host |-> u.host, path |-> u.path]

\* Line 107: the error of a status other than 200 names the URL and the code.
StatusError(u, code) == [kind |-> "status", url |-> u, code |-> code]

ReadError == [kind |-> "read"]

SyntaxError == [kind |-> "json.SyntaxError"]

UnmarshalTypeError == [kind |-> "json.UnmarshalTypeError"]

CloseError == [kind |-> "close"]

\* Line 69: fmt.Errorf("failed to fetch and decode task stats: %w", err)
WrapError(e) == [kind |-> "failed to fetch and decode task stats", wraps |-> e]

-----------------------------------------------------------------------------
(* Response bodies and encoding/json *)

\* The action names of the upstream tasks.
Actions == {"a", "b", ""}

\* An element of the "tasks" array: an object whose "action" is a string,
\* is absent or is a JSON number.
Elements ==
    { [action |-> "string", value |-> a] : a \in Actions }
    \cup { [action |-> "absent", value |-> ""],
           [action |-> "number", value |-> ""] }

TaskLists == UNION { [1..n -> Elements] : n \in 0..MaxTasks }

\* A body: text that is no JSON, the JSON null, a JSON number, or an object
\* whose "tasks" is absent, null, a number or an array of Elements.
Bodies ==
    { [top |-> t, tasks |-> "absent", elems |-> <<>>] : t \in {"malformed", "null", "number"} }
    \cup { [top |-> "object", tasks |-> k, elems |-> <<>>] : k \in {"absent", "null", "number"} }
    \cup { [top |-> "object", tasks |-> "array", elems |-> l] : l \in TaskLists }

NoBody == [top |-> "malformed", tasks |-> "absent", elems |-> <<>>]

\* Bodies sent along with a status other than 200.
ErrorPages ==
    { NoBody,
      [top |-> "object", tasks |-> "absent", elems |-> <<>>],
      [top |-> "object", tasks |-> "array",
       elems |-> <<[action |-> "string", value |-> "a"]>>] }

\* A JSON value does not fit the Go type it is decoded into.
ElementMismatch(e) == e.action \notin {"string", "absent"}

TypeMismatch(b) ==
    \/ b.top = "number"
    \/ b.top = "object" /\ b.tasks = "number"
    \/ b.top = "object" /\ b.tasks = "array"
       /\ \E i \in 1..Len(b.elems) : ElementMismatch(b.elems[i])

\* The TaskResponse an element decodes to: Action keeps its zero value
\* unless the element has an "action" string.
DecodeElement(e) == [Action |-> IF e.action = "string" THEN e.value ELSE ""]

ZeroTasksResponse == [Tasks |-> <<>>]

\* Unmarshal that reports syntax errors only.
UnmarshalLenient(b) ==
    IF b.top = "malformed" THEN [err |-> SyntaxError, tr |-> ZeroTasksResponse]
    ELSE [err |-> NoErr,
          tr |-> IF b.top = "object" /\ b.tasks = "array"
                 THEN [Tasks |-> [i \in 1..Len(b.elems) |-> DecodeElement(b.elems[i])]]
                 ELSE ZeroTasksResponse]

\* json.Unmarshal(bts, &tr), lines 115-116.
Unmarshal(b) ==
    LET tr == IF b.top = "object" /\ b.tasks = "array"
              THEN [Tasks |-> [i \in 1..Len(b.elems) |-> DecodeElement(b.elems[i])]]
              ELSE ZeroTasksResponse
    IN  IF b.top = "malformed" THEN [err |-> SyntaxError, tr |-> ZeroTasksResponse]
        ELSE IF TypeMismatch(b) THEN [err |-> UnmarshalTypeError, tr |-> tr]
        ELSE [err |-> NoErr, tr |-> tr]

-----------------------------------------------------------------------------
(* State *)

\* A nil *AggregatedTaskStats.
NilStats == [isNil |-> TRUE, CountByAction |-> << >>]

VARIABLES
    actionFilter,   \* the package variable actionFilter
    flagsParsed,    \* kingpin has parsed the command line
    tc,             \* the TaskCollector t: its base URL u
    infoLog,        \* the values logged as "actionFilter" at construction
    pc,             \* where the current cycle is
    u,              \* the URL requested in this cycle
    res,            \* the response of this cycle's GET
    calls,          \* this cycle's calls of Get, ReadAll, Unmarshal and Body.Close
    err,            \* the variable err of fetchAndDecodeAndAggregateTaskStats
    bts,            \* the bytes read from the body
    tr,             \* the decoded TasksResponse
    ret,            \* the values fetchAndDecodeAndAggregateTaskStats returns
    remaining,      \* the keys the range loop of Update has not visited
    ch,             \* the samples sent on ch in this cycle, in order
    result,         \* the error Update returned
    warnings,       \* the warnings logged in this cycle
    seen            \* the actions sent on ch in earlier cycles

vars ==
    << actionFilter, flagsParsed, tc, infoLog, pc, u, res, calls, err, bts, tr,
       ret, remaining, ch, result, warnings, seen >>

StatusOK == 200

\* Status codes of the upstream.
Statuses == {StatusOK, 404, 503}

NoRes == [present |-> FALSE, StatusCode |-> 0, Body |-> NoBody]

NoCalls == [Get |-> 0, ReadAll |-> 0, Unmarshal |-> 0, Close |-> 0]

NoRet == [stats |-> NilStats, err |-> NoErr]

Init ==
    /\ actionFilter = <<>>
    /\ flagsParsed = FALSE
    /\ tc = [made |-> FALSE, u |-> NoURL]
    /\ infoLog = <<>>
    /\ pc = "start"
    /\ u = NoURL
    /\ res = NoRes
    /\ calls = NoCalls
    /\ err = NoErr
    /\ bts = NoBody
    /\ tr = ZeroTasksResponse
    /\ ret = NoRet
    /\ remaining = {}
    /\ ch = <<>>
    /\ result = NoErr
    /\ warnings = 0
    /\ seen = {}

-----------------------------------------------------------------------------
(* AggregateTasks, lines 140-147 *)

\* actions[key] += 1 on a Go map: a missing key reads as zero.
Increment(actions, key) ==
    [k \in DOMAIN actions \cup {key} |->
        IF k = key THEN (IF key \in DOMAIN actions THEN actions[key] + 1 ELSE 1)
        ELSE actions[k]]

RECURSIVE AggregateLoop(_, _, _)
AggregateLoop(tasks, i, actions) ==
    IF i > Len(tasks) THEN actions
    ELSE AggregateLoop(tasks, i + 1, Increment(actions, tasks[i].Action))

\* The loop with an assignment in place of the increment.
RECURSIVE AssignLoop(_, _, _)
AssignLoop(tasks, i, actions) ==
    IF i > Len(tasks) THEN actions
    ELSE AssignLoop(tasks, i + 1,
                    [k \in DOMAIN actions \cup {tasks[i].Action} |->
                        IF k = tasks[i].Action THEN 1 ELSE actions[k]])

AggregateTasksAssign(t) ==
    [isNil |-> FALSE, CountByAction |-> AssignLoop(t.Tasks, 1, << >>)]

\* The loop started at the second record.
AggregateTasksSkipFirst(t) ==
    [isNil |-> FALSE, CountByAction |-> AggregateLoop(t.Tasks, 2, << >>)]

\* The map kept between cycles, its counts reset: the actions of earlier
\* cycles stay as keys.
AggregateTasksKeepKeys(t) ==
    [isNil |-> FALSE,
     CountByAction |-> AggregateLoop(t.Tasks, 1, [a \in seen |-> 0])]

\* The loop passing over records whose action is empty.
RECURSIVE SkipEmptyLoop(_, _, _)
SkipEmptyLoop(tasks, i, actions) ==
    IF i > Len(tasks) THEN actions
    ELSE SkipEmptyLoop(tasks, i + 1,
                       IF tasks[i].Action = "" THEN actions
                       ELSE Increment(actions, tasks[i].Action))

AggregateTasksSkipEmpty(t) ==
    [isNil |-> FALSE, CountByAction |-> SkipEmptyLoop(t.Tasks, 1, << >>)]

AggregateTasks(t) == [isNil |-> FALSE, CountByAction |-> AggregateLoop(t.Tasks, 1, << >>)]

-----------------------------------------------------------------------------
(* Start-up *)

\* Lines 39-44: the flag tasks.actions, default "indices:*", parsed once
\* before any collector is made.
ParseFlags ==
    /\ pc = "start"
    /\ ~flagsParsed
    /\ flagsParsed' = TRUE
    /\ \E v \in {DefaultFilter} \cup FlagValues : actionFilter' = v
    /\ UNCHANGED << tc, infoLog, pc, u, res, calls, err, bts, tr, ret, remaining,
                    ch, result, warnings, seen >>

\* Lines 54-64.
NewTaskCollector ==
    /\ pc = "start"
    /\ \E base \in BaseURLs : tc' = [made |-> TRUE, u |-> base]
    /\ infoLog' = Append(infoLog, actionFilter)
    /\ pc' = "idle"
    /\ UNCHANGED << actionFilter, flagsParsed, u, res, calls, err, bts, tr, ret,
                    remaining, ch, result, warnings, seen >>

-----------------------------------------------------------------------------
(* fetchAndDecodeAndAggregateTaskStats, lines 83-122 *)

Labels(samples) == { samples[i].action : i \in 1..Len(samples) }

\* Update is called (line 66) and calls the fetch (line 67), which builds
\* the URL of the request: lines 84-88.
BuildRequest ==
    /\ pc \in {"idle", "done"}
    /\ seen' = seen \cup Labels(ch)
    /\ u' = RequestURL(tc.u, actionFilter)
    /\ res' = NoRes
    /\ calls' = NoCalls
    /\ err' = NoErr
    /\ bts' = NoBody
    /\ tr' = ZeroTasksResponse
    /\ ret' = NoRet
    /\ remaining' = {}
    /\ ch' = <<>>
    /\ result' = NoErr
    /\ warnings' = 0
    /\ pc' = "get"
    /\ UNCHANGED << actionFilter, flagsParsed, tc, infoLog >>

\* Lines 90-94: the GET fails, or answers with a status and a body.
Get ==
    /\ pc = "get"
    /\ calls' = [calls EXCEPT !.Get = @ + 1]
    /\ \/ /\ res' = NoRes
          /\ err' = [kind |-> "transport"]
          /\ ret' = [stats |-> NilStats, err |-> GetError(u)]
          /\ pc' = "fetched"
       \/ /\ \E code \in Statuses :
                \E body \in (IF code = StatusOK THEN Bodies ELSE ErrorPages) :
                    res' = [present |-> TRUE, StatusCode |-> code, Body |-> body]
          /\ err' = NoErr
          /\ ret' = ret
          /\ pc' = "status"
    /\ UNCHANGED << actionFilter, flagsParsed, tc, infoLog, u, bts, tr, remaining,
                    ch, result, warnings, seen >>

\* The status check with only the 5xx codes failing.
StatusIsNotServerError(code) == code < 500

\* Line 106.
StatusIsOK(code) == code = StatusOK

\* The status check placed before the defer statement: its return closes
\* nothing.
CheckStatusBeforeDefer ==
    /\ pc = "status"
    /\ IF res.StatusCode # StatusOK
       THEN /\ ret' = [stats |-> NilStats, err |-> StatusError(u, res.StatusCode)]
            /\ pc' = "fetched"
       ELSE /\ ret' = ret
            /\ pc' = "read"
    /\ UNCHANGED << actionFilter, flagsParsed, tc, infoLog, u, res, calls, err, bts,
                    tr, remaining, ch, result, warnings, seen >>

\* Lines 106-108.  The deferred function of line 96 is registered, so a
\* return runs it.
CheckStatus ==
    /\ pc = "status"
    /\ IF ~StatusIsOK(res.StatusCode)
       THEN /\ ret' = [stats |-> NilStats, err |-> StatusError(u, res.StatusCode)]
            /\ pc' = "defer"
       ELSE /\ ret' = ret
            /\ pc' = "read"
    /\ UNCHANGED << actionFilter, flagsParsed, tc, infoLog, u, res, calls, err, bts,
                    tr, remaining, ch, result, warnings, seen >>

\* Lines 110-113: io.ReadAll reads the body to its end, or fails.
ReadAll ==
    /\ pc = "read"
    /\ calls' = [calls EXCEPT !.ReadAll = @ + 1]
    /\ \/ /\ err' = ReadError
          /\ ret' = [stats |-> NilStats, err |-> ReadError]
          /\ bts' = bts
          /\ pc' = "defer"
       \/ /\ err' = NoErr
          /\ bts' = res.Body
          /\ ret' = ret
          /\ pc' = "decode"
    /\ UNCHANGED << actionFilter, flagsParsed, tc, infoLog, u, res, tr, remaining,
                    ch, result, warnings, seen >>

\* Lines 115-121: decode, and aggregate what was decoded.
Decode ==
    /\ pc = "decode"
    /\ calls' = [calls EXCEPT !.Unmarshal = @ + 1]
    /\ LET d == Unmarshal(bts)
       IN  /\ tr' = d.tr
           /\ ret' = IF ~IsNil(d.err)
                     THEN [stats |-> NilStats, err |-> d.err]
                     ELSE [stats |-> AggregateTasks(d.tr), err |-> NoErr]
    /\ pc' = "defer"
    /\ UNCHANGED << actionFilter, flagsParsed, tc, infoLog, u, res, err, bts,
                    remaining, ch, result, warnings, seen >>

\* The function with a named result err: the deferred assignment sets it.
ResultAfterDeferNamed(r, closeErr) == [r EXCEPT !.err = closeErr]

\* The results of the function are unnamed: the return statement has set
\* them before the deferred function runs, and the deferred function assigns
\* the variable err, not a result.
ResultAfterDefer(r, closeErr) == r

\* Lines 96-104: the deferred function closes the body, and logs a warning
\* if that fails.
DeferredClose ==
    /\ pc = "defer"
    /\ calls' = [calls EXCEPT !.Close = @ + 1]
    /\ \E e \in {NoErr, CloseError} :
          /\ err' = e
          /\ warnings' = IF ~IsNil(e) THEN warnings + 1 ELSE warnings
          /\ ret' = ResultAfterDefer(ret, e)
    /\ pc' = "fetched"
    /\ UNCHANGED << actionFilter, flagsParsed, tc, infoLog, u, res, bts, tr,
                    remaining, ch, result, seen >>

-----------------------------------------------------------------------------
(* Update, lines 66-81 *)

\* Lines 67-71: a failed fetch is wrapped and returned.
UpdateCheck ==
    /\ pc = "fetched"
    /\ IF ~IsNil(ret.err)
       THEN /\ result' = WrapError(ret.err)
            /\ remaining' = remaining
            /\ pc' = "done"
       ELSE /\ result' = result
            /\ remaining' = DOMAIN ret.stats.CountByAction
            /\ pc' = "emit"
    /\ UNCHANGED << actionFilter, flagsParsed, tc, infoLog, u, res, calls, err, bts,
                    tr, ret, ch, seen, warnings >>

\* Lines 73-78: the gauge sample of an action.
NewConstMetric(count, action) == [action |-> action, value |-> count]

\* Lines 72-79: one iteration of the range loop; a Go map is ranged over
\* in any order.
EmitSample ==
    /\ pc = "emit"
    /\ \E action \in remaining :
          /\ ch' = Append(ch, NewConstMetric(ret.stats.CountByAction[action], action))
          /\ remaining' = remaining \ {action}
    /\ UNCHANGED << actionFilter, flagsParsed, tc, infoLog, pc, u, res, calls, err,
                    bts, tr, ret, result, warnings, seen >>

\* The return of line 80 inside the loop: taken after the first sample.
UpdateReturnInLoop ==
    /\ pc = "emit"
    /\ remaining = {} \/ ch # <<>>
    /\ result' = NoErr
    /\ pc' = "done"
    /\ UNCHANGED << actionFilter, flagsParsed, tc, infoLog, u, res, calls, err, bts,
                    tr, ret, remaining, ch, warnings, seen >>

\* Line 80, after the loop.
UpdateReturn ==
    /\ pc = "emit"
    /\ remaining = {}
    /\ result' = NoErr
    /\ pc' = "done"
    /\ UNCHANGED << actionFilter, flagsParsed, tc, infoLog, u, res, calls, err, bts,
                    tr, ret, remaining, ch, warnings, seen >>

Next ==
    \/ ParseFlags
    \/ NewTaskCollector
    \/ BuildRequest
    \/ Get
    \/ CheckStatus
    \/ ReadAll
    \/ Decode
    \/ DeferredClose
    \/ UpdateCheck
    \/ EmitSample
    \/ UpdateReturn

Spec == Init /\ [][Next]_vars

-----------------------------------------------------------------------------
(* What the claims speak of *)

\* The number of records of a task list that carry an action.
CountOf(tasks, a) == Cardinality({ i \in 1..Len(tasks) : tasks[i].Action = a })

DistinctActions(tasks) == { tasks[i].Action : i \in 1..Len(tasks) }

RECURSIVE SumOver(_, _)
SumOver(m, keys) ==
    IF keys = {} THEN 0
    ELSE LET k == CHOOSE x \in keys : TRUE
         IN  m[k] + SumOver(m, keys \ {k})

\* The samples are one per distinct action of the task list, each carrying
\* the action as label and its count as value.
OneSamplePerAction(samples, tasks) ==
    /\ Len(samples) = Cardinality(DistinctActions(tasks))
    /\ \A a \in DistinctActions(tasks) :
          \E i \in 1..Len(samples) :
             samples[i] = [action |-> a, value |-> CountOf(tasks, a)]

Returned == pc = "done"

Succeeded == Returned /\ IsNil(result)

Failed == Returned /\ ~IsNil(result)

Aggregated == ~ret.stats.isNil

\* The query as the upstream parses it (url.ParseQuery): split at "&", cut
\* at the first "=", unescape both halves.
RECURSIVE SplitAt(_, _, _)
SplitAt(s, sep, piece) ==
    IF s = <<>> THEN <<piece>>
    ELSE IF Head(s) = sep THEN <<piece>> \o SplitAt(Tail(s), sep, <<>>)
    ELSE SplitAt(Tail(s), sep, Append(piece, Head(s)))

EscapedChars == { ":", "*", "&", "=", "%", "+" }

RECURSIVE QueryUnescape(_)
QueryUnescape(s) ==
    IF s = <<>> THEN <<>>
    ELSE IF Head(s) = "+" THEN <<" ">> \o QueryUnescape(Tail(s))
    ELSE IF Head(s) # "%" THEN <<Head(s)>> \o QueryUnescape(Tail(s))
    ELSE IF Len(s) >= 3 /\ \E c \in EscapedChars : HexOf(c) = <<s[2], s[3]>>
    THEN <<CHOOSE c \in EscapedChars : HexOf(c) = <<s[2], s[3]>> >>
         \o QueryUnescape(SubSeq(s, 4, Len(s)))
    ELSE <<"invalid escape">>

CutAtEquals(piece) ==
    IF \E i \in 1..Len(piece) : piece[i] = "="
    THEN LET i == CHOOSE j \in 1..Len(piece) :
                     piece[j] = "=" /\ \A k \in 1..(j - 1) : piece[k] # "="
         IN  << QueryUnescape(SubSeq(piece, 1, i - 1)),
                QueryUnescape(SubSeq(piece, i + 1, Len(piece))) >>
    ELSE << QueryUnescape(piece), <<>> >>

ParseQuery(raw) ==
    LET pieces == SplitAt(raw, "&", <<>>)
    IN  { CutAtEquals(pieces[i]) : i \in { j \in 1..Len(pieces) : pieces[j] # <<>> } }

-----------------------------------------------------------------------------
(* Claims *)

\* C1: a call of Update ends either with an error and no sample sent, or
\* with nil and exactly one sample per distinct action of the decoded
\* snapshot (action as label, count as value); samples are only ever sent
\* after a fetch without error; a 200 response whose task list is empty
\* ends in success with no sample.
C1_AllOrNothing ==
    /\ ch # <<>> => pc \in {"emit", "done"} /\ IsNil(ret.err)
    /\ Failed => ch = <<>>
    /\ Succeeded => OneSamplePerAction(ch, tr.Tasks)
    /\ Succeeded /\ res.Body.tasks = "array" /\ res.Body.elems = <<>> => ch = <<>>
    /\ Returned /\ calls.Unmarshal = 1
       /\ res.Body.top = "object" /\ res.Body.tasks = "array" /\ res.Body.elems = <<>>
       => Succeeded

C1_Witness ==
    /\ Succeeded
    /\ Len(ch) = 2
    /\ \E i \in 1..2 : ch[i].value = 2
    /\ seen = {}

\* C2: AggregateTasks maps exactly the distinct actions of its input, each
\* to the number of records carrying it; the counts sum to the number of
\* records; the empty input gives the empty map.
C2_AggregateCounts ==
    Aggregated =>
        LET m == ret.stats.CountByAction
        IN  /\ DOMAIN m = DistinctActions(tr.Tasks)
            /\ \A a \in DOMAIN m : m[a] = CountOf(tr.Tasks, a)
            /\ SumOver(m, DOMAIN m) = Len(tr.Tasks)
            /\ (tr.Tasks = <<>> => m = << >>)

C2_Witness ==
    /\ pc = "defer"
    /\ Aggregated
    /\ Len(tr.Tasks) = 3
    /\ DOMAIN ret.stats.CountByAction = {"a", "b"}
    /\ ret.stats.CountByAction["a"] = 2

\* C3: over any sequence of cycles, a successful cycle sends the actions of
\* its own snapshot with its own counts: an action sent in an earlier cycle
\* and absent now is not sent (not with zero either), and no count is
\* carried over.
C3_NoCarryOver ==
    Succeeded =>
        /\ Labels(ch) = DistinctActions(tr.Tasks)
        /\ \A a \in seen \ DistinctActions(tr.Tasks) :
              \A i \in 1..Len(ch) : ch[i].action # a
        /\ \A i \in 1..Len(ch) :
              ch[i].value = CountOf(tr.Tasks, ch[i].action) /\ ch[i].value >= 1

C3_Witness ==
    /\ Succeeded
    /\ "a" \in seen
    /\ "b" \in seen
    /\ Labels(ch) = {"b"}
    /\ ch[1].value = 1

\* C4: a response with a status other than 200 fails the cycle with an
\* error naming the requested URL and the status code; the body is neither
\* read nor decoded and no sample is sent.
C4_StatusFailure ==
    res.present /\ res.StatusCode # 200 =>
        /\ calls.ReadAll = 0
        /\ calls.Unmarshal = 0
        /\ ch = <<>>
        /\ pc \notin {"read", "decode", "emit"}
        /\ Returned =>
              /\ Failed
              /\ result.wraps.kind = "status"
              /\ result.wraps.url = u
              /\ result.wraps.code = res.StatusCode

C4_Witness ==
    /\ Failed
    /\ res.present
    /\ res.StatusCode = 404
    /\ res.Body.top = "object"
    /\ res.Body.tasks = "array"

\* The shape the spec expects of a body: an object with a list of task
\* records, each with an "action" string.
ExpectedShape(b) ==
    /\ b.top = "object"
    /\ b.tasks = "array"
    /\ \A i \in 1..Len(b.elems) : b.elems[i].action = "string"

\* The body is no JSON, or a value of it has a JSON type (null aside) other
\* than the expected one: the top-level value is no object, "tasks" is no
\* array, or an "action" is no string.
WrongType(b) ==
    \/ b.top \in {"malformed", "number"}
    \/ b.top = "object" /\ b.tasks = "number"
    \/ b.top = "object" /\ b.tasks = "array"
       /\ \E i \in 1..Len(b.elems) : b.elems[i].action = "number"

DecodeFailed == Failed /\ result.wraps.kind \in {"json.SyntaxError", "json.UnmarshalTypeError"}

\* C5 as stated: a 200 response whose body is malformed or not of the
\* expected shape fails the cycle with a decode error and sends no sample.
C5_AsStated ==
    Returned /\ calls.Unmarshal = 1 /\ ~ExpectedShape(res.Body) =>
        DecodeFailed /\ ch = <<>>

\* C5 amended: a 200 response whose body is malformed JSON or holds a value
\* of the wrong JSON type (top level no object, "tasks" no array, "action"
\* no string; null aside) fails the cycle with a decode error and sends no
\* sample; a body that is null or lacks "tasks" (or has it null) is taken
\* as an empty snapshot, and a record that lacks "action" is taken as a
\* record with the empty action: such cycles succeed.
C5_DecodeFailure ==
    Returned /\ calls.Unmarshal = 1 =>
        /\ WrongType(res.Body) => DecodeFailed /\ ch = <<>>
        /\ ~WrongType(res.Body) => Succeeded
        /\ ~WrongType(res.Body) /\ res.Body.tasks # "array" => ch = <<>>

C5_Witness ==
    /\ DecodeFailed
    /\ res.StatusCode = 200
    /\ res.Body.tasks = "array"
    /\ Len(res.Body.elems) = 2
    /\ res.Body.elems[1].action = "string"
    /\ res.Body.elems[2].action = "number"

\* C6: once the GET has returned a response, the body is closed exactly
\* once by the time the fetch returns, whatever path it takes; it is never
\* closed twice, and nothing is closed when there is no response.
C6_ClosedOnce ==
    /\ calls.Close <= 1
    /\ ~res.present => calls.Close = 0
    /\ res.present /\ pc \in {"fetched", "emit", "done"} => calls.Close = 1

C6_Witness ==
    /\ pc = "fetched"
    /\ res.present
    /\ res.StatusCode = 503
    /\ calls.Close = 1
    /\ ~IsNil(ret.err)

\* C7: the deferred close leaves the values the fetch returns as the return
\* statement set them, whether Body.Close fails or not; a failure adds one
\* warning and nothing else, and Update returns that error wrapped, or nil.
C7_CloseDoesNotChangeResult ==
    [][ /\ pc = "defer" =>
            /\ ret' = ret
            /\ warnings' = IF IsNil(err') THEN warnings ELSE warnings + 1
        /\ pc = "fetched" =>
            /\ IsNil(ret.err) => pc' = "emit"
            /\ ~IsNil(ret.err) => pc' = "done" /\ result' = WrapError(ret.err)
      ]_vars

C7_Witness ==
    /\ Succeeded
    /\ err = CloseError
    /\ warnings = 1
    /\ Len(ch) = 1

\* C8: each cycle issues one request; it goes to the base URL's scheme and
\* host, its path is "_tasks" resolved against the base path, and its query,
\* as the upstream parses it, is group_by=none and actions=<the configured
\* filter>, whatever the filter.
C8_RequestQuery ==
    /\ calls.Get <= 1
    /\ pc \in {"status", "read", "decode", "defer", "fetched", "emit", "done"} =>
          calls.Get = 1
    /\ pc \notin {"start", "idle"} =>
          /\ u.scheme = tc.u.scheme
          /\ u.host = tc.u.host
          /\ u.path = DirOf(tc.u.path) \o <<"_tasks">>
          /\ ParseQuery(u.rawQuery)
                = { <<GroupByKey, NoneValue>>, <<ActionsKey, actionFilter>> }

C8_Witness ==
    /\ Returned
    /\ actionFilter = DefaultFilter
    /\ tc.u.path = <<"es", "">>
    /\ u.path = <<"es", "_tasks">>
    /\ u.rawQuery = <<"a", "c", "t", "i", "o", "n", "s", "=",
                      "i", "n", "d", "i", "c", "e", "s", "%", "3", "A", "%", "2", "A",
                      "&", "g", "r", "o", "u", "p", "_", "b", "y", "=", "n", "o", "n", "e">>

\* C9: AggregateTasks gives the same map for a task list and for every
\* permutation of it.
C9_OrderIndependent ==
    pc = "defer" /\ Aggregated =>
        \A p \in Permutations(1..Len(tr.Tasks)) :
            AggregateTasks([Tasks |-> [i \in 1..Len(tr.Tasks) |-> tr.Tasks[p[i]]]])
                = ret.stats

C9_Witness ==
    /\ pc = "defer"
    /\ Aggregated
    /\ Len(tr.Tasks) = 3
    /\ tr.Tasks[1].Action = "b"
    /\ tr.Tasks[2].Action = "a"
    /\ tr.Tasks[3].Action = "b"

\* The records of a body that carry no action: "action" absent, or the
\* empty string.
NoActionRecords(b) ==
    { i \in 1..Len(b.elems) :
        b.elems[i].action = "absent"
        \/ (b.elems[i].action = "string" /\ b.elems[i].value = "") }

\* C10: records without an action are counted under the empty action: a
\* successful cycle whose body holds n >= 1 of them sends exactly one sample
\* with the label "" and the value n.
C10_EmptyAction ==
    Succeeded /\ NoActionRecords(res.Body) # {} =>
        /\ Cardinality({ i \in 1..Len(ch) : ch[i].action = "" }) = 1
        /\ \E i \in 1..Len(ch) :
              ch[i] = [action |-> "", value |-> Cardinality(NoActionRecords(res.Body))]

C10_Witness ==
    /\ Succeeded
    /\ Len(res.Body.elems) = 3
    /\ res.Body.elems[1].action = "absent"
    /\ res.Body.elems[2] = [action |-> "string", value |-> ""]
    /\ res.Body.elems[3] = [action |-> "string", value |-> "a"]
    /\ \E i \in 1..Len(ch) : ch[i] = [action |-> "", value |-> 2]

=============================================================================
